---- MODULE Spec2Model ----
(***************************************************************************)
(* Model of app.py: the "Word Checker" Streamlit page.                     *)
(*                                                                         *)
(* Text is modelled as a sequence of one-character strings, so that        *)
(* str.strip, str.split, str.lower, json.dumps and the `in` substring test *)
(* are computed the way Python computes them.  The environment and the     *)
(* result size only shape the URL and the payload of the request and are   *)
(* not part of the state.                                                  *)
(***************************************************************************)
EXTENDS Integers, Sequences, FiniteSets, TLC

(***************************************************************************)
(* Bounds of the model.                                                    *)
(***************************************************************************)
\* Most rows the "Add another check group" button is pressed up to.
MaxRows == 2
\* Longest products list a response carries.
MaxProducts == 2

(***************************************************************************)
(* Python string helpers.                                                  *)
(***************************************************************************)
\* The characters str.strip() removes (only the space is typed in this model).
Whitespace == {" "}

\* str.lower() on one character.
LowerChar(c) ==
    CASE c = "A" -> "a"
      [] c = "B" -> "b"
      [] c = "C" -> "c"
      [] OTHER -> c

\* str.lower()
Lower(s) == [k \in 1..Len(s) |-> LowerChar(s[k])]

RECURSIVE LStrip(_)
LStrip(s) ==
    IF s # <<>> /\ Head(s) \in Whitespace THEN LStrip(Tail(s)) ELSE s

RECURSIVE RStrip(_)
RStrip(s) ==
    IF s # <<>> /\ s[Len(s)] \in Whitespace
    THEN RStrip(SubSeq(s, 1, Len(s) - 1))
    ELSE s

\* str.strip()
Strip(s) == RStrip(LStrip(s))

\* str.split(','): every comma separates, empty pieces are kept.
RECURSIVE Split(_)
Split(s) ==
    IF \A k \in 1..Len(s) : s[k] # ","
    THEN <<s>>
    ELSE LET k == CHOOSE j \in 1..Len(s) :
                      s[j] = "," /\ \A h \in 1..(j - 1) : s[h] # ","
         IN <<SubSeq(s, 1, k - 1)>> \o Split(SubSeq(s, k + 1, Len(s)))

\* Python truthiness of a str: non-empty.
Truthy(s) == s # <<>>

\* `variation in text`: literal substring test ("" is in every string).
IsSubstring(v, t) ==
    \E k \in 0..(Len(t) - Len(v)) : SubSeq(t, k + 1, k + Len(v)) = v

\* ', '.join-style concatenation of a sequence of texts.
RECURSIVE Join(_, _)
Join(sep, parts) ==
    IF parts = <<>> THEN <<>>
    ELSE IF Len(parts) = 1 THEN parts[1]
    ELSE parts[1] \o sep \o Join(sep, Tail(parts))

(***************************************************************************)
(* Product payloads and their JSON serialization.                          *)
(***************************************************************************)
NA == <<"N", "/", "A">>

\* dict.get(key, default)
Get(p, k, default) == IF k \in DOMAIN p THEN p[k] ELSE default

\* The keys a product record of the service carries, in the order they are
\* serialized.
KeyOrder == <<"product_id", "title", "description">>

KeyChars(k) ==
    CASE k = "product_id" -> <<"p", "r", "o", "d", "u", "c", "t", "_", "i", "d">>
      [] k = "title" -> <<"t", "i", "t", "l", "e">>
      [] k = "description" ->
            <<"d", "e", "s", "c", "r", "i", "p", "t", "i", "o", "n">>

RECURSIVE PresentKeys(_, _)
PresentKeys(p, keys) ==
    IF keys = <<>> THEN <<>>
    ELSE (IF Head(keys) \in DOMAIN p THEN <<Head(keys)>> ELSE <<>>)
         \o PresentKeys(p, Tail(keys))

\* json.dumps of a dict of strings: {"k": "v", "k2": "v2"}
JsonDumps(p) ==
    LET keys == PresentKeys(p, KeyOrder)
        item(k) == <<"\"">> \o KeyChars(k) \o <<"\"", ":", " ", "\"">>
                   \o p[k] \o <<"\"">>
    IN <<"{">> \o Join(<<",", " ">>, [n \in 1..Len(keys) |-> item(keys[n])])
       \o <<"}">>

\* product_as_string = json.dumps(product_payload).lower()
ProductAsString(p) == Lower(JsonDumps(p))

\* Sample product payloads a response can carry.
SampleProducts ==
    { [product_id |-> <<"1">>, title |-> <<"A", "b">>],
      [title |-> <<"b">>, description |-> <<"X">>],
      [product_id |-> <<"2">>] }

RECURSIVE SeqsUpTo(_, _)
SeqsUpTo(S, n) ==
    IF n = 0 THEN {<<>>}
    ELSE LET shorter == SeqsUpTo(S, n - 1)
         IN shorter \cup {Append(q, x) : q \in {r \in shorter : Len(r) = n - 1}, x \in S}

(***************************************************************************)
(* Relevance test of one product.                                          *)
(***************************************************************************)
\* Faulty variant: all() in place of any().
GroupSatisfiedAll(group_variations, product_as_string) ==
    \A n \in 1..Len(group_variations) :
        IsSubstring(group_variations[n], product_as_string)

\* any(variation in product_as_string for variation in group_variations)
GroupSatisfied(group_variations, product_as_string) ==
    \E n \in 1..Len(group_variations) :
        IsSubstring(group_variations[n], product_as_string)

\* The inner loop over enumerate(check_groups): the 0-based indices of the
\* groups with no matching variation, appended in input order.
RECURSIVE FailedFrom(_, _, _)
FailedFrom(check_groups, product_as_string, g) ==
    IF g > Len(check_groups) THEN <<>>
    ELSE (IF ~GroupSatisfied(check_groups[g], product_as_string)
          THEN <<g - 1>> ELSE <<>>)
         \o FailedFrom(check_groups, product_as_string, g + 1)

FailedGroupIndices(check_groups, product_as_string) ==
    FailedFrom(check_groups, product_as_string, 1)

\* Faulty variant: only the first failed group is counted.
CounterUpdateFirstOnly(counter, indices) ==
    IF indices = <<>> THEN counter
    ELSE [k \in DOMAIN counter \cup {Head(indices)} |->
             IF k = Head(indices)
             THEN Get(counter, Head(indices), 0) + 1
             ELSE counter[k]]

\* Counter.update(iterable): each element's count goes up by one; a key
\* exists only once it was counted.
RECURSIVE CounterUpdate(_, _)
CounterUpdate(counter, indices) ==
    IF indices = <<>> THEN counter
    ELSE LET g == Head(indices)
             bumped == [k \in DOMAIN counter \cup {g} |->
                           IF k = g THEN Get(counter, g, 0) + 1 ELSE counter[k]]
         IN CounterUpdate(bumped, Tail(indices))

(***************************************************************************)
(* The submit handler's validation and parsing of the form.                *)
(***************************************************************************)
\* Faulty variant: blank rows are tolerated as long as one row is filled.
AllFilledDroppingBlanks(shop, keyword, inputs) ==
    /\ Truthy(shop)
    /\ Truthy(keyword)
    /\ \E n \in 1..Len(inputs) : Truthy(Strip(inputs[n]))

\* all([shop_id, search_keyword_input] + [inp.strip() for inp in inputs])
AllFilled(shop, keyword, inputs) ==
    /\ Truthy(shop)
    /\ Truthy(keyword)
    /\ \A n \in 1..Len(inputs) : Truthy(Strip(inputs[n]))

\* [kw.strip().lower() for kw in group_str.split(',')]
ParseGroup(group_str) ==
    LET pieces == Split(group_str)
    IN [n \in 1..Len(pieces) |-> Lower(Strip(pieces[n]))]

\* The rows kept by `for group_str in check_group_inputs if group_str.strip()`.
KeptRow(group_str) == Truthy(Strip(group_str))

\* check_groups = [ParseGroup(g) for g in check_group_inputs if g.strip()]
BuildCheckGroups(inputs) ==
    LET kept == SelectSeq(inputs, KeptRow)
    IN [n \in 1..Len(kept) |-> ParseGroup(kept[n])]

(***************************************************************************)
(* Session-state list operations.                                          *)
(***************************************************************************)
\* list.pop(index), 0-based index.
Pop(rows, index) ==
    SubSeq(rows, 1, index) \o SubSeq(rows, index + 2, Len(rows))

\* Faulty variant: the Delete button is rendered for a single row too.
DeleteAlwaysOffered(rows) == TRUE

\* The Delete button of a row is rendered only while more than one row exists.
DeleteOffered(rows) == Len(rows) > 1

(***************************************************************************)
(* Inputs of the model.                                                    *)
(***************************************************************************)
\* Texts typed into a check-group row.
InputTexts ==
    { <<>>, <<" ">>, <<"a">>, <<" ", "B">>, <<",">>, <<"a", ",", " ", "x">> }

\* Texts typed into the Shop ID field.
ShopIds == { <<>>, <<" ">>, <<"s", "1", " ">> }

\* Texts typed into the search keyword field.
Keywords == { <<>>, <<" ">>, <<" ", "t", "v">> }

\* HTTP statuses of the final response.
Statuses == {200, 304, 404, 500}

\* Response bodies: not JSON, a JSON object without "products", or a JSON
\* object with a products list.
NotJson == [json |-> FALSE]
JsonObject(obj) == [json |-> TRUE, obj |-> obj]
Bodies ==
    {NotJson, JsonObject(<<>>)}
    \cup {JsonObject([products |-> l]) : l \in SeqsUpTo(SampleProducts, MaxProducts)}

\* Transport failures of requests.post (all are RequestException).
TransportFailures == {"ConnectionError", "Timeout"}

\* Faulty variant: only server errors raise.
RaisesOnServerErrorOnly(status_code) == status_code >= 500

\* response.raise_for_status(): HTTPError for 4xx and 5xx.
RaisesHTTPError(status_code) == status_code >= 400 /\ status_code < 600

\* Faulty variant: the empty list is not checked for.
NoProductsUnchecked(products) == FALSE

\* `if not products`
NoProducts(products) == products = <<>>

\* Faulty variant: a failed attempt is retried.
RetryAfterRequestException == "post"

\* What run_analysis does after a failed attempt: its except clauses return.
AfterRequestException == "done"

NoCall == [called |-> FALSE]
NoResponse == [received |-> FALSE]
NoResult == [status |-> "none"]
NoOp == [op |-> "none"]

VARIABLES
    check_groups_state,       \* st.session_state.check_groups_state
    last_op,                  \* the UI callback or handler that ran last
    shop_id,                  \* the Shop ID widget value read by the submit
    search_keyword_input,     \* the keyword widget value read by the submit
    message,                  \* what the submit handler displayed
    call,                     \* the arguments run_analysis was called with
    pc,                       \* position inside run_analysis
    requests_sent,            \* HTTP requests issued by this invocation
    response,                 \* the response object
    products,                 \* products
    i,                        \* products classified so far
    relevant_products_data,
    irrelevant_products_data,
    failure_reason_counter,
    llm_formatted_texts,
    analysis_result

ui_vars == <<check_groups_state, last_op>>
form_vars == <<shop_id, search_keyword_input, message, call>>
loop_vars == <<products, i, relevant_products_data, irrelevant_products_data,
               failure_reason_counter, llm_formatted_texts>>
run_vars == <<pc, requests_sent, response, analysis_result>>
vars == <<ui_vars, form_vars, loop_vars, run_vars>>

EmptyCounter == <<>>

\* The locals of a script run that has not submitted.
FreshRun ==
    /\ shop_id' = <<>>
    /\ search_keyword_input' = <<>>
    /\ message' = "none"
    /\ call' = NoCall
    /\ pc' = "idle"
    /\ requests_sent' = 0
    /\ response' = NoResponse
    /\ products' = <<>>
    /\ i' = 0
    /\ relevant_products_data' = <<>>
    /\ irrelevant_products_data' = <<>>
    /\ failure_reason_counter' = EmptyCounter
    /\ llm_formatted_texts' = <<>>
    /\ analysis_result' = NoResult

Init ==
    /\ check_groups_state = << <<>> >>
    /\ last_op = NoOp
    /\ shop_id = <<>>
    /\ search_keyword_input = <<>>
    /\ message = "none"
    /\ call = NoCall
    /\ pc = "idle"
    /\ requests_sent = 0
    /\ response = NoResponse
    /\ products = <<>>
    /\ i = 0
    /\ relevant_products_data = <<>>
    /\ irrelevant_products_data = <<>>
    /\ failure_reason_counter = EmptyCounter
    /\ llm_formatted_texts = <<>>
    /\ analysis_result = NoResult

\* The page accepts an interaction only between script runs.
Interactive == pc \in {"idle", "done"}

(***************************************************************************)
(* Sidebar callbacks and the row widgets.                                  *)
(***************************************************************************)
add_check_group ==
    /\ Interactive
    /\ Len(check_groups_state) < MaxRows
    /\ check_groups_state' = Append(check_groups_state, <<>>)
    /\ last_op' = [op |-> "add"]
    /\ FreshRun

remove_check_group ==
    /\ Interactive
    /\ DeleteOffered(check_groups_state)
    /\ \E index \in 0..(Len(check_groups_state) - 1) :
          /\ check_groups_state' = Pop(check_groups_state, index)
          /\ last_op' = [op |-> "remove", index |-> index]
    /\ FreshRun

reset_check_groups ==
    /\ Interactive
    /\ check_groups_state' = << <<>> >>
    /\ last_op' = [op |-> "reset"]
    /\ FreshRun

\* check_groups_state[i] = st.text_input(...): the row takes the typed text.
EditRow ==
    /\ Interactive
    /\ \E index \in 0..(Len(check_groups_state) - 1), text \in InputTexts :
          /\ check_groups_state[index + 1] # text
          /\ check_groups_state' =
                [check_groups_state EXCEPT ![index + 1] = text]
          /\ last_op' = [op |-> "edit", index |-> index]
    /\ FreshRun

(***************************************************************************)
(* The submit handler.                                                     *)
(***************************************************************************)
\* `if submitted:` up to the call of run_analysis.  The widget values are
\* whatever the user typed before pressing "Analyze Assortment".
Submit ==
    /\ Interactive
    /\ \E shop \in ShopIds, keyword \in Keywords :
          /\ shop_id' = shop
          /\ search_keyword_input' = keyword
          /\ IF ~AllFilled(shop, keyword, check_groups_state)
             THEN /\ message' = "warning"
                  /\ call' = NoCall
                  /\ pc' = "idle"
             ELSE IF BuildCheckGroups(check_groups_state) = <<>>
             THEN /\ message' = "error"
                  /\ call' = NoCall
                  /\ pc' = "idle"
             ELSE /\ message' = "spinner"
                  /\ call' = [called |-> TRUE,
                              shop_id |-> Strip(shop),
                              search_keyword |-> Strip(keyword),
                              check_groups |->
                                  BuildCheckGroups(check_groups_state)]
                  /\ pc' = "post"
    /\ last_op' = [op |-> "submit"]
    /\ requests_sent' = 0
    /\ response' = NoResponse
    /\ analysis_result' = NoResult
    /\ products' = <<>>
    /\ i' = 0
    /\ relevant_products_data' = <<>>
    /\ irrelevant_products_data' = <<>>
    /\ failure_reason_counter' = EmptyCounter
    /\ llm_formatted_texts' = <<>>
    /\ UNCHANGED check_groups_state

(***************************************************************************)
(* run_analysis.                                                           *)
(***************************************************************************)
ErrorResult(error, fields) ==
    [k \in {"status", "error"} \cup DOMAIN fields |->
        IF k = "status" THEN "error"
        ELSE IF k = "error" THEN error
        ELSE fields[k]]

\* requests.post(url, ..., timeout=30): one request goes out; it either
\* fails in transport or yields a response.
Post ==
    /\ pc = "post"
    /\ requests_sent' = requests_sent + 1
    /\ \E failed \in BOOLEAN :
          IF failed
          THEN \E e \in TransportFailures :
                  /\ response' = NoResponse
                  /\ pc' = AfterRequestException
                  /\ analysis_result' =
                        IF AfterRequestException = "done"
                        THEN ErrorResult("NetworkError", [details |-> e])
                        ELSE analysis_result
          ELSE \E status_code \in Statuses, body \in Bodies :
                  /\ response' = [received |-> TRUE,
                                  status_code |-> status_code,
                                  body |-> body]
                  /\ pc' = "raise_for_status"
                  /\ UNCHANGED analysis_result
    /\ UNCHANGED <<ui_vars, form_vars, loop_vars>>

\* response.raise_for_status() and `except requests.exceptions.HTTPError`.
RaiseForStatus ==
    /\ pc = "raise_for_status"
    /\ IF RaisesHTTPError(response.status_code)
       THEN /\ analysis_result' =
                  ErrorResult("ApiError",
                              [status_code |-> response.status_code,
                               text |-> response.body])
            /\ pc' = "done"
       ELSE /\ pc' = "parse"
            /\ UNCHANGED analysis_result
    /\ UNCHANGED <<ui_vars, form_vars, loop_vars, requests_sent, response>>

\* products = response.json().get("products", []) and `if not products`.
\* A body that is not JSON raises in response.json(): a RequestException
\* subclass or a ValueError, depending on the installed requests version.
ParseProducts ==
    /\ pc = "parse"
    /\ IF ~response.body.json
       THEN \E error \in {"NetworkError", "UnexpectedError"} :
               /\ analysis_result' =
                     ErrorResult(error, [details |-> "JSONDecodeError"])
               /\ pc' = "done"
               /\ UNCHANGED products
       ELSE LET got == Get(response.body.obj, "products", <<>>)
            IN IF NoProducts(got)
               THEN /\ analysis_result' =
                          ErrorResult("NoProducts",
                                      [search_keyword |-> call.search_keyword])
                    /\ pc' = "done"
                    /\ products' = got
               ELSE /\ products' = got
                    /\ pc' = "loop"
                    /\ UNCHANGED analysis_result
    /\ UNCHANGED <<ui_vars, form_vars, requests_sent, response, i,
                   relevant_products_data, irrelevant_products_data,
                   failure_reason_counter, llm_formatted_texts>>

\* Faulty variant: the 0-based loop index is reported.
PositionZeroBased(index) == index

\* "Position": i + 1
Position(index) == index + 1

RelevantEntry(index, product_payload) ==
    [Position |-> Position(index),
     ProductID |-> Get(product_payload, "product_id", NA),
     ProductName |-> Get(product_payload, "title", NA)]

IrrelevantEntry(index, product_payload, failed_group_indices) ==
    [Position |-> Position(index),
     ProductID |-> Get(product_payload, "product_id", NA),
     ProductName |-> Get(product_payload, "title", NA),
     failed_indices |-> failed_group_indices]

\* `if not failed_group_indices`
IsRelevant(failed_group_indices) == failed_group_indices = <<>>

\* One iteration of `for i, product_payload in enumerate(products)`.
LoopIter ==
    /\ pc = "loop"
    /\ i < Len(products)
    /\ LET product_payload == products[i + 1]
           failed_group_indices ==
               FailedGroupIndices(call.check_groups,
                                  ProductAsString(product_payload))
       IN /\ llm_formatted_texts' =
                Append(llm_formatted_texts,
                       [prod |-> i + 1,
                        title |-> Get(product_payload, "title", NA),
                        description |->
                            Get(product_payload, "description", NA)])
          /\ IF IsRelevant(failed_group_indices)
             THEN /\ relevant_products_data' =
                        Append(relevant_products_data,
                               RelevantEntry(i, product_payload))
                  /\ UNCHANGED <<irrelevant_products_data,
                                 failure_reason_counter>>
             ELSE /\ irrelevant_products_data' =
                        Append(irrelevant_products_data,
                               IrrelevantEntry(i, product_payload,
                                               failed_group_indices))
                  /\ failure_reason_counter' =
                        CounterUpdate(failure_reason_counter,
                                      failed_group_indices)
                  /\ UNCHANGED relevant_products_data
    /\ i' = i + 1
    /\ UNCHANGED <<ui_vars, form_vars, run_vars, products>>

\* The return of the success report, once the loop is over.
ReturnSuccess ==
    /\ pc = "loop"
    /\ i = Len(products)
    /\ analysis_result' =
          [status |-> "success",
           total_products |-> Len(products),
           relevant_products |-> relevant_products_data,
           irrelevant_products |-> irrelevant_products_data,
           failure_summary |-> failure_reason_counter,
           llm_formatted_output |->
               [search_term |-> call.search_keyword,
                texts |-> llm_formatted_texts]]
    /\ pc' = "done"
    /\ UNCHANGED <<ui_vars, form_vars, loop_vars, requests_sent, response>>

Next ==
    \/ add_check_group
    \/ remove_check_group
    \/ reset_check_groups
    \/ EditRow
    \/ Submit
    \/ Post
    \/ RaiseForStatus
    \/ ParseProducts
    \/ LoopIter
    \/ ReturnSuccess

Spec == Init /\ [][Next]_vars

(***************************************************************************)
(* Helpers of the properties.                                              *)
(***************************************************************************)
Range(f) == {f[x] : x \in DOMAIN f}

Ascending(f) == \A x, y \in DOMAIN f : x < y => f[x] < f[y]

RECURSIVE SumLens(_)
SumLens(entries) ==
    IF entries = <<>> THEN 0
    ELSE Len(Head(entries).failed_indices) + SumLens(Tail(entries))

RECURSIVE SumOver(_, _)
SumOver(f, keys) ==
    IF keys = {} THEN 0
    ELSE LET k == CHOOSE x \in keys : TRUE
         IN f[k] + SumOver(f, keys \ {k})

Success == pc = "done" /\ analysis_result.status = "success"

Submitted == last_op.op = "submit"

Blank(text) == Strip(text) = <<>>

\* The 1-based numbers of the groups none of whose variations occurs in the
\* lowercased JSON text of the product.
Unsatisfied(groups, product_payload) ==
    LET text == Lower(JsonDumps(product_payload))
    IN {g \in 1..Len(groups) :
           \A v \in 1..Len(groups[g]) : ~IsSubstring(groups[g][v], text)}

\* The first n products are classified as the relevance rule says.
ClassifiedRight(relevant, irrelevant, n) ==
    \A pos \in 1..n :
        LET unsat == Unsatisfied(call.check_groups, products[pos])
            rel == {k \in 1..Len(relevant) : relevant[k].Position = pos}
            irr == {k \in 1..Len(irrelevant) : irrelevant[k].Position = pos}
        IN IF unsat = {}
           THEN rel # {} /\ irr = {}
           ELSE /\ rel = {}
                /\ irr # {}
                /\ \A k \in irr :
                      /\ Range(irrelevant[k].failed_indices)
                            = {g - 1 : g \in unsat}
                      /\ Ascending(irrelevant[k].failed_indices)

C2_Partition ==
    Success =>
        LET rel == analysis_result.relevant_products
            irr == analysis_result.irrelevant_products
            total == analysis_result.total_products
        IN /\ total = Len(response.body.obj.products)
           /\ Len(rel) + Len(irr) = total
           /\ \A pos \in 1..total :
                 Cardinality({k \in 1..Len(rel) : rel[k].Position = pos})
                 + Cardinality({k \in 1..Len(irr) : irr[k].Position = pos}) = 1
           /\ \A k \in 1..Len(rel) : rel[k].Position \in 1..total
           /\ \A k \in 1..Len(irr) : irr[k].Position \in 1..total
           /\ \A x, y \in 1..Len(rel) : x < y => rel[x].Position < rel[y].Position
           /\ \A x, y \in 1..Len(irr) : x < y => irr[x].Position < irr[y].Position

\* A report over two products, one in each list.
C2_Witness ==
    /\ Success
    /\ analysis_result.total_products = 2
    /\ Len(analysis_result.relevant_products) = 1
    /\ Len(analysis_result.irrelevant_products) = 1

(***************************************************************************)
(* C3: failure_summary[g] is the number of irrelevant products whose        *)
(* failed_indices contains g; it has a key only for an index that failed;   *)
(* its counts sum to the total length of the failed_indices lists.          *)
(***************************************************************************)
C3_FailureSummary ==
    Success =>
        LET irr == analysis_result.irrelevant_products
            summary == analysis_result.failure_summary
            failures(g) ==
                Cardinality({k \in 1..Len(irr) :
                                g \in Range(irr[k].failed_indices)})
        IN /\ DOMAIN summary \subseteq 0..(Len(call.check_groups) - 1)
           /\ \A g \in 0..(Len(call.check_groups) - 1) :
                 IF failures(g) = 0
                 THEN g \notin DOMAIN summary
                 ELSE g \in DOMAIN summary /\ summary[g] = failures(g)
           /\ SumOver(summary, DOMAIN summary) = SumLens(irr)

\* Two irrelevant products: both fail group 0, one of them also group 1.
C3_Witness ==
    /\ Success
    /\ DOMAIN analysis_result.failure_summary = {0, 1}
    /\ analysis_result.failure_summary[0] = 2
    /\ analysis_result.failure_summary[1] = 1

(***************************************************************************)
(* C4: a submit whose trimmed shop id is empty, whose trimmed query is      *)
(* empty, or whose concept groups are all blank is rejected, run_analysis   *)
(* is not called and no request is issued.                                  *)
(***************************************************************************)
C4_RejectsMissingFields ==
    (/\ Submitted
     /\ \/ Blank(shop_id)
        \/ Blank(search_keyword_input)
        \/ \A n \in 1..Len(check_groups_state) : Blank(check_groups_state[n]))
    => /\ message \in {"warning", "error"}
       /\ ~call.called
       /\ pc = "idle"
       /\ requests_sent = 0

C6_EmptyProductsIsError ==
    /\ Success => analysis_result.total_products >= 1
    /\ (/\ pc = "done"
        /\ response.received
        /\ response.body.json
        /\ \/ "products" \notin DOMAIN response.body.obj
           \/ response.body.obj.products = <<>>)
       => /\ analysis_result.status = "error"
          /\ response.status_code < 400 =>
                /\ analysis_result.error = "NoProducts"
                /\ analysis_result.search_keyword = Strip(search_keyword_input)

\* A finished call whose 200 response carried "products": [].
C6_Witness ==
    /\ pc = "done"
    /\ response.received
    /\ response.status_code = 200
    /\ response.body.json
    /\ "products" \in DOMAIN response.body.obj
    /\ response.body.obj.products = <<>>
    /\ analysis_result.status = "error"
    /\ analysis_result.search_keyword # <<>>

ApiErrorReported ==
    /\ analysis_result.status = "error"
    /\ analysis_result.error = "ApiError"
    /\ analysis_result.status_code = response.status_code
    /\ analysis_result.text = response.body
    /\ products = <<>>
    /\ i = 0

(***************************************************************************)
(* C7 as stated: for every response whose status is not 2xx, run_analysis   *)
(* returns the API error carrying the status code and the body, and never   *)
(* parses products or returns a success report.                             *)
(***************************************************************************)
C7_Non2xxIsApiError ==
    (pc = "done" /\ response.received /\ response.status_code \notin 200..299)
    => ApiErrorReported

(***************************************************************************)
(* C7 amended: for every response whose status is 4xx or 5xx, run_analysis  *)
(* returns the API error carrying that status code and body, and never      *)
(* parses products or returns a success report.                             *)
(***************************************************************************)
C7_ErrorStatusIsApiError ==
    /\ (pc = "done" /\ response.received
        /\ response.status_code \in 400..599) => ApiErrorReported
    /\ (response.received /\ response.status_code \in 400..599) =>
          pc \in {"raise_for_status", "done"}

\* A finished call whose response had status 500 and a products list.
C7_Witness ==
    /\ pc = "done"
    /\ response.received
    /\ response.status_code = 500
    /\ response.body.json
    /\ "products" \in DOMAIN response.body.obj
    /\ response.body.obj.products # <<>>
    /\ analysis_result.status = "error"

(***************************************************************************)
(* C8: an invocation of run_analysis issues at most one HTTP request on     *)
(* every path: none before the post, exactly one from then on, whatever     *)
(* the outcome; a failed attempt never returns to the post.                 *)
(***************************************************************************)
C8_SingleRequest ==
    /\ requests_sent <= 1
    /\ pc \in {"idle", "post"} => requests_sent = 0
    /\ pc \in {"raise_for_status", "parse", "loop", "done"} => requests_sent = 1
    /\ pc = "done" => analysis_result.status \in {"error", "success"}

\* An invocation that ended in a network error after its one request.
C8_Witness ==
    /\ pc = "done"
    /\ analysis_result.status = "error"
    /\ analysis_result.error = "NetworkError"
    /\ ~response.received
    /\ requests_sent = 1

(***************************************************************************)
(* C9: every concept group that reaches run_analysis contains at least one  *)
(* non-empty variation.                                                     *)
(***************************************************************************)
C9_GroupHasNonEmptyVariation ==
    call.called =>
        \A g \in 1..Len(call.check_groups) :
            \E v \in 1..Len(call.check_groups[g]) :
                call.check_groups[g][v] # <<>>

(***************************************************************************)
(* C10: check_groups_state always holds at least one row; remove happens    *)
(* only with more than one row and a valid index, deletes exactly that row  *)
(* and keeps the order of the others; add appends one empty row; reset      *)
(* yields exactly one empty row.                                            *)
(***************************************************************************)
C10_RowsNeverEmpty ==
    /\ [](Len(check_groups_state) >= 1)
    /\ [][/\ last_op'.op = "add" =>
                /\ Len(check_groups_state') = Len(check_groups_state) + 1
                /\ check_groups_state'[Len(check_groups_state')] = <<>>
                /\ \A k \in 1..Len(check_groups_state) :
                      check_groups_state'[k] = check_groups_state[k]
          /\ last_op'.op = "remove" =>
                /\ Len(check_groups_state) > 1
                /\ last_op'.index \in 0..(Len(check_groups_state) - 1)
                /\ Len(check_groups_state') = Len(check_groups_state) - 1
                /\ \A k \in 1..Len(check_groups_state') :
                      check_groups_state'[k] =
                          IF k <= last_op'.index
                          THEN check_groups_state[k]
                          ELSE check_groups_state[k + 1]
          /\ last_op'.op = "reset" => check_groups_state' = << <<>> >>
          /\ last_op'.op = "submit" =>
                check_groups_state' = check_groups_state
         ]_vars

\* The first of two rows was removed and the typed second row remains.
C10_Witness ==
    /\ last_op.op = "remove"
    /\ last_op.index = 0
    /\ Len(check_groups_state) = 1
    /\ check_groups_state[1] # <<>>

====
